---- MODULE Spec2Model ----
(***************************************************************************)
(* Model of lib/python/voltcli/utility.py: the two-tier persistent         *)
(* configuration (INIConfigManager, PersistentConfig) and the zip archive  *)
(* builder (Zipper), together with the Global flags they read.             *)
(*                                                                         *)
(* Python strings that the code inspects (keys, filters, paths, regular    *)
(* expressions) are sequences of one-character strings, so that find,      *)
(* split, startswith, sort and search are computed as the code computes    *)
(* them.  A dict is a function whose DOMAIN is its key set.                 *)
(*                                                                         *)
(* A call that raises leaves the object in the state it had when the       *)
(* exception left the method; `result` names the exception.  abort() ends  *)
(* the process (sys.exit(1)): after it no operation runs.                  *)
(***************************************************************************)
EXTENDS Integers, Sequences, FiniteSets, TLC

VARIABLES
    permanent,      \* PersistentConfig.permanent: dict key -> value
    local,          \* PersistentConfig.local: dict key -> value
    permFile,       \* content of the file at permanent_path (INI lines)
    localFile,      \* content of the file at local_path (INI lines)
    lastOp,         \* the last call made: [op |-> ..., its arguments]
    result,         \* how the last call ended: "ok" or the exception raised
    ret,            \* what the last call returned: [kind |-> ..., v |-> ...]
    exited,         \* TRUE once abort() has ended the process
    dryrun_enabled, \* Global.dryrun_enabled
    re_excludes,    \* Zipper.re_excludes: the patterns given to Zipper(...)
    output_zip,     \* Zipper.output_zip: "None", or the ZipFile "open" / "closed"
    manifest,       \* Zipper.manifest: list of destination paths
    archive,        \* the zip file at output_path: [exists, entries]
    opened,         \* how open() was called: "no", "dryrun" or "real"
    zlog,           \* the add_file / add_string calls made on the open archive
    verbose_enabled, \* Global.verbose_enabled
    debug_enabled,  \* Global.debug_enabled
    executed,       \* the command lines os.system has run
    stdout,         \* the lines written to sys.stdout by run_cmd
    f_mode,         \* File.mode: "r" or "w"
    f_f,            \* File.f: "None", or the file object "open" / "closed"
    f_disk          \* the file at File.path: [exists, data]

cfgVars == <<permanent, local, permFile, localFile>>
callVars == <<lastOp, result, ret, exited>>
zipVars == <<re_excludes, output_zip, manifest, archive, opened, zlog>>
fileVars == <<f_mode, f_f, f_disk>>
auxVars == <<verbose_enabled, debug_enabled, executed, stdout, fileVars>>
vars == <<permanent, local, permFile, localFile, lastOp, result, ret, exited,
          dryrun_enabled, re_excludes, output_zip, manifest, archive, opened, zlog,
          verbose_enabled, debug_enabled, executed, stdout, f_mode, f_f, f_disk>>

\* Global as the class body sets it, nothing run yet, and a File('path')
\* on a path that does not exist.
InitAux ==
    /\ verbose_enabled = FALSE
    /\ debug_enabled = FALSE
    /\ executed = <<>>
    /\ stdout = <<>>
    /\ f_mode = "r"
    /\ f_f = "None"
    /\ f_disk = [exists |-> FALSE, data |-> <<>>]

----------------------------------------------------------------------------
(* Strings *)

\* The characters in use, in code point order ('.' < '/' < 'X' < 'a' ...).
Alphabet == <<".", "/", "X", "a", "b", "c", "d", "m", "n", "s", "x", "y">>

Ord(c) == CHOOSE i \in 1..Len(Alphabet) : Alphabet[i] = c

\* str.lower() on one character (ConfigParser.optionxform).
Lower(c) == IF c = "X" THEN "x" ELSE c

LowerStr(s) == [i \in 1..Len(s) |-> Lower(s[i])]

\* s < t for Python strings: lexicographic by code point.
RECURSIVE StrLess(_, _)
StrLess(s, t) ==
    IF t = <<>> THEN FALSE
    ELSE IF s = <<>> THEN TRUE
    ELSE IF s[1] # t[1] THEN Ord(s[1]) < Ord(t[1])
    ELSE StrLess(Tail(s), Tail(t))

\* list.sort() on a list of distinct strings (dict keys).
RECURSIVE sort(_)
sort(S) ==
    IF S = {} THEN <<>>
    ELSE LET m == CHOOSE k \in S : \A o \in S \ {k} : StrLess(k, o)
         IN  <<m>> \o sort(S \ {m})

\* str.find(c): 0-based index of the first occurrence of character c, or -1.
find(s, c) ==
    IF \E i \in 1..Len(s) : s[i] = c
    THEN (CHOOSE i \in 1..Len(s) : s[i] = c /\ \A j \in 1..(i - 1) : s[j] # c) - 1
    ELSE -1

\* str.startswith(prefix).
startswith(s, prefix) ==
    /\ Len(prefix) <= Len(s)
    /\ SubSeq(s, 1, Len(prefix)) = prefix

----------------------------------------------------------------------------
(* Dicts *)

EmptyDict == <<>>

\* d[key] = value
DictSet(d, key, value) ==
    [k \in (DOMAIN d) \cup {key} |-> IF k = key THEN value ELSE d[k]]

None == [kind |-> "None"]
Value(v) == [kind |-> "value", v |-> v]
Dict(d) == [kind |-> "dict", v |-> d]
Pairs(l) == [kind |-> "list", v |-> l]
Msg(k) == [kind |-> "message", v |-> k]

----------------------------------------------------------------------------
(* INI files.  A file is the sequence of its lines: a [section] header or  *)
(* a "name = value" option line.  A missing file has no lines.              *)

Header(s) == [kind |-> "section", name |-> s, value |-> ""]
Option(n, v) == [kind |-> "option", name |-> n, value |-> v]

\* SafeConfigParser.read: the options of each section, names through
\* optionxform (lower case), a later line for the same option replacing an
\* earlier one; then load's flattening into 'section.name' keys.
RECURSIVE load_lines(_, _, _)
load_lines(lines, cursect, d) ==
    IF lines = <<>> THEN d
    ELSE LET l == Head(lines)
         IN  IF l.kind = "section"
             THEN load_lines(Tail(lines), l.name, d)
             ELSE load_lines(Tail(lines), cursect,
                             DictSet(d, cursect \o <<".">> \o LowerStr(l.name), l.value))

\* INIConfigManager.load(path), given the content of the file at path.
INIConfigManager_load(file) == load_lines(file, <<>>, EmptyDict)

\* FileWriter(path): the module neither defines nor imports the name
\* FileWriter, so evaluating it raises NameError before any file is opened.
FileWriter == "NameError"

\* key.find('.') == -1
NoSection(key) == find(key, ".") = -1

\* The first key, in sorted order, that has no '.'.
FirstBadKey(keys) ==
    keys[CHOOSE i \in 1..Len(keys) :
            /\ NoSection(keys[i])
            /\ \A j \in 1..(i - 1) : ~NoSection(keys[j])]

\* save with the key check dropped: every key is taken as it is.
INIConfigManager_save_NoCheck(file, d) ==
    [result |-> FileWriter, file |-> file, ret |-> None]

\* INIConfigManager.save(path, d), given the content of the file at path:
\* how the call ends and the content of the file afterwards.  The loop
\* aborts at the first sorted key without a '.'; otherwise the parser is
\* filled and FileWriter(path) is evaluated, which raises.
INIConfigManager_save(file, d) ==
    LET keys == sort(DOMAIN d)
    IN  IF \E k \in DOMAIN d : NoSection(k)
        THEN [result |-> "abort", file |-> file, ret |-> Msg(FirstBadKey(keys))]
        ELSE [result |-> FileWriter, file |-> file, ret |-> None]

----------------------------------------------------------------------------
(* Inputs *)

K_ax == <<"a", ".", "x">>
K_bx == <<"b", ".", "x">>
K_ab == <<"a", "b">>

Keys == {K_ax, K_bx, K_ab}
Values == {"1", "2"}

\* Largest dict handed to a direct INIConfigManager.save call.
MaxEntries == 2

ConfigMaps ==
    UNION {[S -> Values] : S \in {T \in SUBSET Keys : Cardinality(T) <= MaxEntries}}

\* Files found on disk when the PersistentConfig is constructed.
ExistingFiles ==
    { <<>>,
      <<Header(<<"a">>), Option(<<"x">>, "1")>>,
      <<Header(<<"a">>), Option(<<"X">>, "2"), Header(<<"b">>), Option(<<"x">>, "1")>> }

\* query's filter argument: None, a string, or (when the argument is left
\* out) the default, which is the builtin function `filter`.
FilterNone == [kind |-> "None", s |-> <<>>]
FilterBuiltin == [kind |-> "builtin", s |-> <<>>]
FilterStr(s) == [kind |-> "str", s |-> s]
Prefixes == {<<>>, <<"a">>, <<"a", ".">>, <<"b", ".">>}
Filters == {FilterNone, FilterBuiltin} \cup {FilterStr(s) : s \in Prefixes}

\* Python truth of the filter argument.
Truthy(f) == f.kind = "builtin" \/ (f.kind = "str" /\ f.s # <<>>)

----------------------------------------------------------------------------
(* PersistentConfig *)

\* get with the tiers looked up in the wrong order.
get_PermanentFirst(key) ==
    IF key \in DOMAIN permanent THEN Value(permanent[key])
    ELSE IF key \in DOMAIN local THEN Value(local[key])
    ELSE None

\* PersistentConfig.get(key): the value returned.
get(key) ==
    IF key \in DOMAIN local THEN Value(local[key])
    ELSE IF key \in DOMAIN permanent THEN Value(permanent[key])
    ELSE None

\* PersistentConfig.query(filter): how the call ends and what it returns.
\* self.results is an attribute no code sets, so the first permanent key
\* that is to be merged raises AttributeError; key.startswith(<function>)
\* raises TypeError.  Nothing is assigned before either exception.
query(f) ==
    IF Truthy(f)
    THEN IF f.kind = "builtin"
         THEN IF DOMAIN local # {} \/ DOMAIN permanent # {}
              THEN [result |-> "TypeError", ret |-> None]
              ELSE [result |-> "ok", ret |-> Dict(EmptyDict)]
         ELSE LET results == [k \in {k \in DOMAIN local : startswith(k, f.s)} |-> local[k]]
              IN  IF \E key \in DOMAIN permanent :
                        key \notin DOMAIN results /\ startswith(key, f.s)
                  THEN [result |-> "AttributeError", ret |-> None]
                  ELSE [result |-> "ok", ret |-> Dict(results)]
    ELSE IF \E key \in DOMAIN permanent : key \notin DOMAIN local
         THEN [result |-> "AttributeError", ret |-> None]
         ELSE [result |-> "ok", ret |-> Dict(local)]

\* PersistentConfig.query_pairs(filter): query's dict as a list of
\* (key, value) pairs in sorted key order; query's exception passes through.
query_pairs(f) ==
    LET q == query(f)
    IN  IF q.result # "ok" THEN q
        ELSE LET d == q.ret.v
                 keys == sort(DOMAIN d)
             IN  [result |-> "ok",
                  ret |-> Pairs([i \in 1..Len(keys) |-> <<keys[i], d[keys[i]]>>])]

Get(key) ==
    /\ ~exited
    /\ lastOp' = [op |-> "get", key |-> key]
    /\ result' = "ok"
    /\ ret' = get(key)
    /\ UNCHANGED <<cfgVars, exited, dryrun_enabled, zipVars, auxVars>>

\* PersistentConfig.set_permanent(key, value), save_permanent included.
set_permanent(key, value) ==
    /\ ~exited
    /\ permanent' = DictSet(permanent, key, value)
    /\ LET s == INIConfigManager_save(permFile, permanent')
       IN  /\ permFile' = s.file
           /\ result' = s.result
           /\ ret' = s.ret
           /\ exited' = (s.result = "abort")
    /\ lastOp' = [op |-> "set_permanent", key |-> key, value |-> value]
    /\ UNCHANGED <<local, localFile, dryrun_enabled, zipVars, auxVars>>

\* set_local that also stores the pair in the permanent dict.
set_local_Both(key, value) ==
    /\ ~exited
    /\ local' = DictSet(local, key, value)
    /\ permanent' = DictSet(permanent, key, value)
    /\ LET s == INIConfigManager_save(localFile, local')
       IN  /\ localFile' = s.file
           /\ result' = s.result
           /\ ret' = s.ret
           /\ exited' = (s.result = "abort")
    /\ lastOp' = [op |-> "set_local", key |-> key, value |-> value]
    /\ UNCHANGED <<permFile, dryrun_enabled, zipVars, auxVars>>

\* PersistentConfig.set_local(key, value), save_local included.
set_local(key, value) ==
    /\ ~exited
    /\ local' = DictSet(local, key, value)
    /\ LET s == INIConfigManager_save(localFile, local')
       IN  /\ localFile' = s.file
           /\ result' = s.result
           /\ ret' = s.ret
           /\ exited' = (s.result = "abort")
    /\ lastOp' = [op |-> "set_local", key |-> key, value |-> value]
    /\ UNCHANGED <<permanent, permFile, dryrun_enabled, zipVars, auxVars>>

Query(f) ==
    /\ ~exited
    /\ lastOp' = [op |-> "query", filter |-> f]
    /\ result' = query(f).result
    /\ ret' = query(f).ret
    /\ UNCHANGED <<cfgVars, exited, dryrun_enabled, zipVars, auxVars>>

\* query_pairs takes None or a string (its default is None).
QueryPairs(f) ==
    /\ ~exited
    /\ f.kind # "builtin"
    /\ lastOp' = [op |-> "query_pairs", filter |-> f]
    /\ result' = query_pairs(f).result
    /\ ret' = query_pairs(f).ret
    /\ UNCHANGED <<cfgVars, exited, dryrun_enabled, zipVars, auxVars>>

\* config_manager.save(path, d) called directly on one of the two paths.
Save(tier, d) ==
    /\ ~exited
    /\ LET file == IF tier = "permanent" THEN permFile ELSE localFile
           s == INIConfigManager_save(file, d)
       IN  /\ permFile' = IF tier = "permanent" THEN s.file ELSE permFile
           /\ localFile' = IF tier = "local" THEN s.file ELSE localFile
           /\ result' = s.result
           /\ ret' = s.ret
           /\ exited' = (s.result = "abort")
    /\ lastOp' = [op |-> "save", tier |-> tier, d |-> d]
    /\ UNCHANGED <<permanent, local, dryrun_enabled, zipVars, auxVars>>

\* config_manager.load(path) called directly on one of the two paths.
Load(tier) ==
    /\ ~exited
    /\ lastOp' = [op |-> "load", tier |-> tier]
    /\ result' = "ok"
    /\ ret' = Dict(INIConfigManager_load(IF tier = "permanent" THEN permFile ELSE localFile))
    /\ UNCHANGED <<cfgVars, exited, dryrun_enabled, zipVars, auxVars>>

Tiers == {"permanent", "local"}

\* PersistentConfig('ini', permanent_path, local_path): both tiers loaded.
InitConfig ==
    /\ permFile \in ExistingFiles
    /\ localFile \in ExistingFiles
    /\ permanent = INIConfigManager_load(permFile)
    /\ local = INIConfigManager_load(localFile)
    /\ lastOp = [op |-> "__init__"]
    /\ result = "ok"
    /\ ret = None
    /\ exited = FALSE
    /\ dryrun_enabled = FALSE
    /\ re_excludes = <<>>
    /\ output_zip = "None"
    /\ manifest = <<>>
    /\ archive = [exists |-> FALSE, entries |-> <<>>]
    /\ opened = "no"
    /\ zlog = <<>>
    /\ InitAux

NextConfig ==
    \/ \E key \in Keys : Get(key)
    \/ \E key \in Keys, value \in Values : set_permanent(key, value)
    \/ \E key \in Keys, value \in Values : set_local(key, value)
    \/ \E f \in Filters : Query(f)
    \/ \E f \in Filters : QueryPairs(f)
    \/ \E tier \in Tiers, d \in ConfigMaps : Save(tier, d)
    \/ \E tier \in Tiers : Load(tier)

SpecConfig == InitConfig /\ [][NextConfig]_vars

----------------------------------------------------------------------------
(* Properties of the configuration *)

FileOf(tier) == IF tier = "permanent" THEN permFile ELSE localFile

HasKey(d, k) == k \in DOMAIN d

\* The merged view of both tiers over the keys that start with prefix:
\* the local value where local holds the key, the permanent value otherwise.
Merged(prefix) ==
    [k \in {k \in (DOMAIN local) \cup (DOMAIN permanent) : startswith(k, prefix)} |->
        IF HasKey(local, k) THEN local[k] ELSE permanent[k]]

\* The prefix a filter argument stands for (no filter: every key).
PrefixOf(f) == IF f.kind = "str" THEN f.s ELSE <<>>

\* C1: PersistentConfig.get(key) returns the local value when local holds
\* the key, else the permanent value when permanent holds it, else None.
C1_GetPrecedence ==
    lastOp.op = "get" =>
        LET k == lastOp.key
        IN  /\ HasKey(local, k) => ret = Value(local[k])
            /\ (~HasKey(local, k) /\ HasKey(permanent, k)) => ret = Value(permanent[k])
            /\ (~HasKey(local, k) /\ ~HasKey(permanent, k)) => ret = None

\* C1 witness: get on a key both tiers hold with different values.
C1_Witness ==
    /\ lastOp.op = "get"
    /\ HasKey(local, lastOp.key) /\ HasKey(permanent, lastOp.key)
    /\ local[lastOp.key] # permanent[lastOp.key]
    /\ ret = Value(local[lastOp.key])

\* C2: save(path, d) of a dict whose keys all hold a '.' completes, and
\* load(path) afterwards returns a dict equal to d.
C2_RoundTrip ==
    (lastOp.op = "save" /\ \A k \in DOMAIN lastOp.d : ~NoSection(k)) =>
        /\ result = "ok"
        /\ INIConfigManager_load(FileOf(lastOp.tier)) = lastOp.d

\* C3: after set_permanent / set_local of a key that holds a '.', the call
\* has returned and loading the tier's file yields the tier's dict, the
\* new pair included.
C3_SetPersists ==
    /\ (lastOp.op = "set_permanent" /\ ~NoSection(lastOp.key)) =>
            /\ result = "ok"
            /\ INIConfigManager_load(permFile) = permanent
            /\ HasKey(permanent, lastOp.key) /\ permanent[lastOp.key] = lastOp.value
    /\ (lastOp.op = "set_local" /\ ~NoSection(lastOp.key)) =>
            /\ result = "ok"
            /\ INIConfigManager_load(localFile) = local
            /\ HasKey(local, lastOp.key) /\ local[lastOp.key] = lastOp.value

\* C4: save(path, d) with a dict that holds a key without '.' ends in
\* abort, the message naming such a key of d, and leaves both files as
\* they were, whatever other keys d holds.
C4_KeyValidation ==
    [][ (lastOp'.op = "save" /\ \E k \in DOMAIN lastOp'.d : NoSection(k)) =>
            /\ result' = "abort"
            /\ exited'
            /\ ret'.kind = "message"
            /\ HasKey(lastOp'.d, ret'.v) /\ NoSection(ret'.v)
            /\ permFile' = permFile
            /\ localFile' = localFile ]_vars

\* C4 witness: a save that aborted on a dict that also holds a valid key,
\* on a path whose file has content.
C4_Witness ==
    /\ lastOp.op = "save"
    /\ result = "abort"
    /\ \E k \in DOMAIN lastOp.d : ~NoSection(k)
    /\ FileOf(lastOp.tier) # <<>>

\* C5: query(filter) returns the merged dict of the keys of either tier
\* that start with the filter, local values preferred; query(None) and
\* query() return the merged dict of all keys.
C5_FilterCorrectness ==
    lastOp.op = "query" =>
        /\ result = "ok"
        /\ ret = Dict(Merged(PrefixOf(lastOp.filter)))

\* C6: query_pairs(filter) returns the entries of the merged dict as
\* (key, value) pairs, one per key, in strictly ascending key order.
C6_SortedPairs ==
    lastOp.op = "query_pairs" =>
        /\ result = "ok"
        /\ ret.kind = "list"
        /\ LET l == ret.v
               m == Merged(PrefixOf(lastOp.filter))
           IN  /\ Len(l) = Cardinality(DOMAIN m)
               /\ \A i \in 1..Len(l) : HasKey(m, l[i][1]) /\ l[i][2] = m[l[i][1]]
               /\ \A i \in 1..(Len(l) - 1) : StrLess(l[i][1], l[i + 1][1])

\* C7: set_local leaves the permanent dict and file as they were, and
\* set_permanent leaves the local dict and file as they were.
C7_WriteOneTier ==
    [][ /\ lastOp'.op = "set_local" => (permanent' = permanent /\ permFile' = permFile)
        /\ lastOp'.op = "set_permanent" => (local' = local /\ localFile' = localFile) ]_vars

\* C7 witness: set_local has stored a pair under a key that permanent
\* does not hold.
C7_Witness ==
    /\ lastOp.op = "set_local"
    /\ HasKey(local, lastOp.key) /\ local[lastOp.key] = lastOp.value
    /\ ~HasKey(permanent, lastOp.key)

\* Whether the dict the last call returned is self.local itself: query
\* with a filter that is not truthy returns results = self.local.
ResultIsLocal ==
    IF lastOp.op = "query" THEN ~Truthy(lastOp.filter) ELSE lastOp.alias

\* results[key] = value by the caller on the dict query has just returned;
\* when that dict is self.local, the assignment is an assignment to
\* self.local.
SetResultItem(key, value) ==
    /\ ~exited
    /\ lastOp.op \in {"query", "results[key] = value"}
    /\ result = "ok"
    /\ ret' = Dict(DictSet(ret.v, key, value))
    /\ local' = IF ResultIsLocal THEN DictSet(local, key, value) ELSE local
    /\ lastOp' = [op |-> "results[key] = value", key |-> key, value |-> value,
                  alias |-> ResultIsLocal]
    /\ UNCHANGED <<permanent, permFile, localFile, result, exited, dryrun_enabled,
                   zipVars, auxVars>>

NextQuery ==
    \/ \E key \in Keys : Get(key)
    \/ \E key \in Keys, value \in Values : set_permanent(key, value)
    \/ \E key \in Keys, value \in Values : set_local(key, value)
    \/ \E f \in Filters : Query(f)
    \/ \E f \in Filters : QueryPairs(f)
    \/ \E key \in Keys, value \in Values : SetResultItem(key, value)

SpecQuery == InitConfig /\ [][NextQuery]_vars

\* C17: query and query_pairs leave the two maps and the two files
\* unchanged, and the dict query returns is not the local map: changing
\* it changes neither map nor what get returns.
C17_QueryReadOnly ==
    [][ /\ lastOp'.op \in {"query", "query_pairs"} => UNCHANGED cfgVars
        /\ lastOp'.op = "results[key] = value" =>
               /\ UNCHANGED cfgVars
               /\ \A key \in Keys : get(key)' = get(key) ]_vars

----------------------------------------------------------------------------
(* Global flags *)

\* Global.manifest_path
manifest_path == <<"M", "A", "N", "I", "F", "E", "S", "T">>

----------------------------------------------------------------------------
(* Zipper.  The file system holds one source directory "s" with the files  *)
(* m.c, m.d and n/m.d; the path "x" does not exist.  Exclusion patterns    *)
(* are regular expressions without metacharacters (escaped literal text),  *)
(* so re.search is a substring search.                                     *)

P_s == <<"s">>
P_x == <<"x">>
P_mc == <<"m", ".", "c">>
P_md == <<"m", ".", "d">>
P_n == <<"n">>
P_s_mc == <<"s", "/", "m", ".", "c">>
P_s_md == <<"s", "/", "m", ".", "d">>

SourceFiles == {P_s_mc, P_s_md, <<"s", "/", "n", "/", "m", ".", "d">>}
SourceDirs == {P_s}

\* os.walk('.') inside a directory: <<basedir[2:], filename>> for each file,
\* the top directory first; the order of the names in one directory is
\* whatever the file system lists.
Walks(dir) ==
    IF dir = P_s
    THEN { <<<<<<>>, P_mc>>, <<<<>>, P_md>>, <<P_n, P_md>>>>,
           <<<<<<>>, P_md>>, <<<<>>, P_mc>>, <<P_n, P_md>>>> }
    ELSE {}

\* os.path.join(a, b) for a relative b.
os_path_join(a, b) ==
    IF a = <<>> THEN b
    ELSE IF a[Len(a)] = "/" THEN a \o b
    ELSE a \o <<"/">> \o b

\* re.compile(pattern).search(s) for a literal pattern.
search(pattern, s) ==
    \E i \in 1..(Len(s) + 1) :
        /\ i + Len(pattern) - 1 <= Len(s)
        /\ SubSeq(s, i, i + Len(pattern) - 1) = pattern

\* The add calls a run may make while the archive is open.
MaxCalls == 2

PAT_c == <<".", "c">>
PAT_d == <<".", "d">>
PAT_n == <<"n", "/">>

\* Zipper(*excludes): the constructor's pattern lists tried.
ExcludeLists == {<<>>, <<PAT_c>>, <<PAT_n, PAT_c>>}
\* add_directory(..., excludes): the per-call lists tried.
CallExcludes == {<<>>, <<PAT_d>>}
InPaths == {P_s_mc, P_s_md, P_x}
OutPaths == {<<"a">>, <<"b">>}
DstPrefixes == {<<>>, <<"d">>}
Strings == {"1"}

NoArchive == [exists |-> FALSE, entries |-> <<>>]

FileEntry(name, src) == [name |-> name, kind |-> "file", data |-> src]
StringEntry(name, str) == [name |-> name, kind |-> "string", data |-> str]
\* '\n'.join(manifest): one path per line.
ManifestEntry(lines) == [name |-> manifest_path, kind |-> "lines", data |-> lines]

\* The Zipper's fields and its zip file, as one value.
Z == [output_zip |-> output_zip, manifest |-> manifest, archive |-> archive, zlog |-> zlog]

Written(z, entry) == [exists |-> TRUE, entries |-> Append(z.archive.entries, entry)]

\* A call is logged when it is made on the open archive.
Logged(z, call) == IF z.output_zip = "open" THEN Append(z.zlog, call) ELSE z.zlog

\* Zipper.add_file(path_in, path_out) on Zipper z in directory cwd: the
\* Zipper afterwards and how the call ends.  path_in_full is assigned only
\* in the body of the loop over re_excludes, so with no pattern the else
\* branch reads an unassigned local (UnboundLocalError).  ZipFile.write
\* raises RuntimeError on a closed archive and OSError (caught: abort) on a
\* missing file.
add_file(z, cwd, path_in, path_out) ==
    LET zl == [z EXCEPT !.zlog = Logged(z, [op |-> "add_file", path_in |-> path_in,
                                             src |-> os_path_join(cwd, path_in),
                                             path_out |-> path_out])]
    IN  IF \E i \in 1..Len(re_excludes) : search(re_excludes[i], path_in)
        THEN [z |-> zl, result |-> "ok"]
        ELSE IF re_excludes = <<>>
        THEN [z |-> zl, result |-> "UnboundLocalError"]
        ELSE IF z.output_zip = "None"
        THEN [z |-> zl, result |-> "ok"]
        ELSE IF z.output_zip = "closed"
        THEN [z |-> zl, result |-> "RuntimeError"]
        ELSE IF os_path_join(cwd, path_in) \notin SourceFiles
        THEN [z |-> zl, result |-> "abort"]
        ELSE [z |-> [zl EXCEPT !.archive = Written(z, FileEntry(path_out, os_path_join(cwd, path_in))),
                               !.manifest = Append(z.manifest, path_out)],
              result |-> "ok"]

\* Zipper.add_string(s, path_out).
add_string(z, str, path_out) ==
    LET zl == [z EXCEPT !.zlog = Logged(z, [op |-> "add_string", path_in |-> <<>>,
                                             src |-> <<>>, path_out |-> path_out])]
    IN  IF z.output_zip = "None"
        THEN [z |-> zl, result |-> "ok"]
        ELSE IF z.output_zip = "closed"
        THEN [z |-> zl, result |-> "RuntimeError"]
        ELSE [z |-> [zl EXCEPT !.archive = Written(z, StringEntry(path_out, str)),
                               !.manifest = Append(z.manifest, path_out)],
              result |-> "ok"]

\* The loop of add_directory over the files os.walk yields: add_file for
\* each, stopping at the first call that raises.
RECURSIVE add_walk(_, _, _, _)
add_walk(z, dir, dst, walk) ==
    IF walk = <<>> THEN [z |-> z, result |-> "ok"]
    ELSE LET basedir2 == walk[1][1]
             filename == walk[1][2]
             file_path_in  == os_path_join(basedir2, filename)
             file_path_out == os_path_join(os_path_join(dst, basedir2), filename)
             r == add_file(z, dir, file_path_in, file_path_out)
         IN  IF r.result # "ok" THEN r
             ELSE add_walk(r.z, dir, dst, Tail(walk))

\* Zipper.add_directory(path_in, dst, excludes), os.walk yielding `walk`.
\* The excludes argument is not read.
add_directory(z, path_in, dst, excludes, walk) ==
    IF path_in \notin SourceDirs
    THEN [z |-> z, result |-> "abort"]
    ELSE add_walk(z, path_in, dst, walk)

\* The Zipper and the call variables after a call that ended as r.
Ends(r, op) ==
    /\ output_zip' = r.z.output_zip
    /\ manifest' = r.z.manifest
    /\ archive' = r.z.archive
    /\ zlog' = r.z.zlog
    /\ result' = r.result
    /\ ret' = None
    /\ exited' = (r.result = "abort")
    /\ lastOp' = op

set_dryrun(dryrun) ==
    /\ ~exited
    /\ dryrun_enabled' = dryrun
    /\ lastOp' = [op |-> "set_dryrun", dryrun |-> dryrun]
    /\ result' = "ok"
    /\ ret' = None
    /\ UNCHANGED <<cfgVars, exited, zipVars, auxVars>>

\* open that creates the archive whatever the dry-run flag says.
open_IgnoreDryrun ==
    /\ ~exited
    /\ opened = "no"
    /\ opened' = IF dryrun_enabled THEN "dryrun" ELSE "real"
    /\ output_zip' = "open"
    /\ archive' = [exists |-> TRUE, entries |-> <<>>]
    /\ lastOp' = [op |-> "open"]
    /\ result' = "ok"
    /\ ret' = None
    /\ UNCHANGED <<cfgVars, exited, dryrun_enabled, re_excludes, manifest, zlog, auxVars>>

\* Zipper.open(output_path), called once on a new Zipper (an Archive is
\* never reopened).  ZipFile(path, 'w') creates the file.
open ==
    /\ ~exited
    /\ opened = "no"
    /\ opened' = IF dryrun_enabled THEN "dryrun" ELSE "real"
    /\ output_zip' = IF dryrun_enabled THEN output_zip ELSE "open"
    /\ archive' = IF dryrun_enabled THEN archive ELSE [exists |-> TRUE, entries |-> <<>>]
    /\ lastOp' = [op |-> "open"]
    /\ result' = "ok"
    /\ ret' = None
    /\ UNCHANGED <<cfgVars, exited, dryrun_enabled, re_excludes, manifest, zlog, auxVars>>

\* Zipper.close(): the manifest is written as the last entry, then the
\* ZipFile is closed.  writestr on a closed ZipFile raises RuntimeError.
close ==
    /\ ~exited
    /\ IF output_zip = "None"
       THEN /\ result' = "ok"
            /\ UNCHANGED <<output_zip, archive>>
       ELSE IF output_zip = "closed"
       THEN /\ result' = "RuntimeError"
            /\ UNCHANGED <<output_zip, archive>>
       ELSE /\ result' = "ok"
            /\ archive' = Written(Z, ManifestEntry(manifest))
            /\ output_zip' = "closed"
    /\ lastOp' = [op |-> "close"]
    /\ ret' = None
    /\ UNCHANGED <<cfgVars, exited, dryrun_enabled, re_excludes, manifest, opened, zlog, auxVars>>

CanCall == ~exited /\ Len(zlog) < MaxCalls

AddFile(path_in, path_out) ==
    /\ CanCall
    /\ Ends(add_file(Z, <<>>, path_in, path_out),
            [op |-> "add_file", path_in |-> path_in, path_out |-> path_out])
    /\ UNCHANGED <<cfgVars, dryrun_enabled, re_excludes, opened, auxVars>>

AddString(str, path_out) ==
    /\ CanCall
    /\ Ends(add_string(Z, str, path_out),
            [op |-> "add_string", path_out |-> path_out])
    /\ UNCHANGED <<cfgVars, dryrun_enabled, re_excludes, opened, auxVars>>

AddDirectory(path_in, dst, excludes) ==
    /\ CanCall
    /\ \E walk \in (IF path_in \in SourceDirs THEN Walks(path_in) ELSE {<<>>}) :
          Ends(add_directory(Z, path_in, dst, excludes, walk),
               [op |-> "add_directory", path_in |-> path_in, dst |-> dst,
                excludes |-> excludes, walk |-> walk])
    /\ UNCHANGED <<cfgVars, dryrun_enabled, re_excludes, opened, auxVars>>

\* Zipper(*excludes) constructed; Global as the module defines it.
InitZipper ==
    /\ permFile = <<>>
    /\ localFile = <<>>
    /\ permanent = EmptyDict
    /\ local = EmptyDict
    /\ lastOp = [op |-> "__init__"]
    /\ result = "ok"
    /\ ret = None
    /\ exited = FALSE
    /\ dryrun_enabled = FALSE
    /\ re_excludes \in ExcludeLists
    /\ output_zip = "None"
    /\ manifest = <<>>
    /\ archive = NoArchive
    /\ opened = "no"
    /\ zlog = <<>>
    /\ InitAux

NextZipper ==
    \/ \E b \in BOOLEAN : set_dryrun(b)
    \/ open
    \/ close
    \/ \E path_in \in InPaths, path_out \in OutPaths : AddFile(path_in, path_out)
    \/ \E str \in Strings, path_out \in OutPaths : AddString(str, path_out)
    \/ \E path_in \in SourceDirs \cup {P_x}, dst \in DstPrefixes, excludes \in CallExcludes :
          AddDirectory(path_in, dst, excludes)

SpecZipper == InitZipper /\ [][NextZipper]_vars

----------------------------------------------------------------------------
(* Properties of the Zipper *)

\* A pattern of the list matches the path.
Excluded(patterns, path) == \E i \in 1..Len(patterns) : search(patterns[i], path)

\* The destination paths a sequence of add calls is to list: every
\* add_string call and every add_file call on a source file whose path
\* matches no exclusion pattern, in call order.
RECURSIVE Listed(_)
Listed(calls) ==
    IF calls = <<>> THEN <<>>
    ELSE LET c == Head(calls)
         IN  IF c.op = "add_file" /\ (Excluded(re_excludes, c.path_in) \/ c.src \notin SourceFiles)
             THEN Listed(Tail(calls))
             ELSE <<c.path_out>> \o Listed(Tail(calls))

\* C8: once a Zipper opened without dry-run is closed, the last entry of
\* the archive is MANIFEST, its lines are the destination paths of every
\* add_string call and of every add_file call whose source path matched no
\* exclusion pattern, in call order, and each line names an entry written
\* before it.
C8_ManifestComplete ==
    (opened = "real" /\ output_zip = "closed") =>
        LET e == archive.entries
            m == e[Len(e)]
        IN  /\ m.name = manifest_path
            /\ m.kind = "lines"
            /\ m.data = Listed(zlog)
            /\ \A i \in 1..Len(m.data) : \E j \in 1..(Len(e) - 1) : e[j].name = m.data[i]

\* The files a walk yields that are to be added: those whose path matches
\* neither a pattern of the constructor nor one of the call.
RECURSIVE Kept(_, _)
Kept(walk, excludes) ==
    IF walk = <<>> THEN <<>>
    ELSE LET rel == os_path_join(walk[1][1], walk[1][2])
         IN  IF Excluded(re_excludes, rel) \/ Excluded(excludes, rel)
             THEN Kept(Tail(walk), excludes)
             ELSE <<rel>> \o Kept(Tail(walk), excludes)

\* C9: an add_directory(sourceDir, destPrefix, excludes) call that returns
\* on an open archive adds, to the archive and to the manifest, exactly the
\* files under sourceDir whose path matches no exclusion pattern, of the
\* constructor or of the call, each under destPrefix/<relative path>.
C9_ExclusionFiltering ==
    [][ (lastOp'.op = "add_directory" /\ result' = "ok" /\ output_zip = "open") =>
            LET kept == Kept(lastOp'.walk, lastOp'.excludes)
                dsts == [i \in 1..Len(kept) |-> os_path_join(lastOp'.dst, kept[i])]
                newm == SubSeq(manifest', Len(manifest) + 1, Len(manifest'))
                newe == SubSeq(archive'.entries, Len(archive.entries) + 1,
                               Len(archive'.entries))
            IN  /\ newm = dsts
                /\ Len(newe) = Len(dsts)
                /\ \A i \in 1..Len(newe) : newe[i].name = dsts[i] ]_vars

\* C10: a Zipper opened under dry-run has no ZipFile and no archive, its
\* manifest stays empty whatever add calls are made, and close returns
\* having written nothing.
C10_DryRun ==
    opened = "dryrun" =>
        /\ output_zip = "None"
        /\ archive = NoArchive
        /\ manifest = <<>>
        /\ lastOp.op = "close" => result = "ok"

\* C10 witness: an add_string call made on a Zipper opened under dry-run,
\* after the flag has been switched off again.
C10_Witness ==
    /\ opened = "dryrun"
    /\ ~dryrun_enabled
    /\ lastOp.op = "add_string"
    /\ result = "ok"

----------------------------------------------------------------------------
(* Global flags and run_cmd *)

\* set_verbose(verbose)
set_verbose(verbose) ==
    /\ ~exited
    /\ verbose_enabled' = verbose
    /\ lastOp' = [op |-> "set_verbose", verbose |-> verbose]
    /\ result' = "ok"
    /\ ret' = None
    /\ UNCHANGED <<cfgVars, exited, dryrun_enabled, zipVars, debug_enabled,
                   executed, stdout, fileVars>>

\* set_debug that leaves the verbose flag alone.
set_debug_Only(debug) ==
    /\ ~exited
    /\ debug_enabled' = debug
    /\ lastOp' = [op |-> "set_debug", debug |-> debug]
    /\ result' = "ok"
    /\ ret' = None
    /\ UNCHANGED <<cfgVars, exited, dryrun_enabled, zipVars, verbose_enabled,
                   executed, stdout, fileVars>>

\* set_debug(debug): enabling debug enables verbose too.
set_debug(debug) ==
    /\ ~exited
    /\ debug_enabled' = debug
    /\ verbose_enabled' = IF debug THEN TRUE ELSE verbose_enabled
    /\ lastOp' = [op |-> "set_debug", debug |-> debug]
    /\ result' = "ok"
    /\ ret' = None
    /\ UNCHANGED <<cfgVars, exited, dryrun_enabled, zipVars, executed, stdout, fileVars>>

is_dryrun == dryrun_enabled
is_verbose == verbose_enabled
is_debug == debug_enabled

\* len(sarg.split()): the number of blank-separated words of s.
Words(s) ==
    Cardinality({i \in 1..Len(s) : s[i] # " " /\ (i = 1 \/ s[i - 1] = " ")})

\* The command line run_cmd builds: an argument of more than one word is
\* put in double quotes.
RECURSIVE fullcmd(_, _)
fullcmd(cmd, args) ==
    IF args = <<>> THEN cmd
    ELSE LET sarg == Head(args)
         IN  fullcmd(IF Words(sarg) > 1
                     THEN cmd \o <<" ", "\"">> \o sarg \o <<"\"">>
                     ELSE cmd \o <<" ">> \o sarg,
                     Tail(args))

\* A line on sys.stdout: the tag display_messages puts before it, the text.
Line(tag, text) == [tag |-> tag, text |-> text]

\* The run_cmd calls a run may make.
MaxCmds == 2

\* run_cmd(cmd, *args), os.system returning retcode.  Under dry-run the
\* command line is printed and nothing is run; otherwise it is run (after
\* an INFO2 line when verbose), and a return code other than 0 aborts.
run_cmd(cmd, args, retcode) ==
    /\ ~exited
    /\ Len(executed) < MaxCmds /\ Len(stdout) < MaxCmds
    /\ lastOp' = [op |-> "run_cmd", cmd |-> cmd, args |-> args]
    /\ ret' = None
    /\ IF dryrun_enabled
       THEN /\ stdout' = Append(stdout, Line("", fullcmd(cmd, args)))
            /\ executed' = executed
            /\ result' = "ok"
            /\ exited' = FALSE
       ELSE /\ executed' = Append(executed, fullcmd(cmd, args))
            /\ stdout' = (IF verbose_enabled
                          THEN Append(stdout, Line("INFO2", <<"R", "u", "n", ":", " ">> \o fullcmd(cmd, args)))
                          ELSE stdout)
                         \o (IF retcode # 0 THEN <<Line("ERROR", cmd)>> ELSE <<>>)
            /\ result' = IF retcode # 0 THEN "abort" ELSE "ok"
            /\ exited' = (retcode # 0)
    /\ UNCHANGED <<cfgVars, dryrun_enabled, zipVars, verbose_enabled, debug_enabled, fileVars>>

Cmds == {<<"c">>}
ArgLists == {<<<<"a">>>>, <<<<"a", " ", "b">>, <<"a">>>>}
RetCodes == {0, 1}

\* The flags, run_cmd and the two set_* calls of a PersistentConfig.
NextGlobal ==
    \/ \E b \in BOOLEAN : set_dryrun(b)
    \/ \E b \in BOOLEAN : set_verbose(b)
    \/ \E b \in BOOLEAN : set_debug(b)
    \/ \E cmd \in Cmds, args \in ArgLists, retcode \in RetCodes : run_cmd(cmd, args, retcode)
    \/ \E key \in {K_ax, K_ab} : set_permanent(key, "1")
    \/ \E key \in {K_ax, K_ab} : set_local(key, "1")

\* A PersistentConfig constructed on a missing permanent file and a local
\* file that holds one option.
InitGlobal ==
    /\ InitConfig
    /\ permFile = <<>>
    /\ localFile = <<Header(<<"a">>), Option(<<"x">>, "1")>>

SpecGlobal == InitGlobal /\ [][NextGlobal]_vars

\* C11: while dry-run is enabled, run_cmd runs nothing and prints the
\* command line, and set_permanent / set_local of a key with a section
\* write no file and return, having only reported what they would do.
C11_DryRunEverywhere ==
    [][ dryrun_enabled =>
            /\ lastOp'.op = "run_cmd" =>
                    /\ executed' = executed
                    /\ stdout' = Append(stdout, Line("", fullcmd(lastOp'.cmd, lastOp'.args)))
                    /\ result' = "ok"
            /\ (lastOp'.op \in {"set_permanent", "set_local"} /\ ~NoSection(lastOp'.key)) =>
                    /\ permFile' = permFile
                    /\ localFile' = localFile
                    /\ result' = "ok" ]_vars

\* C16 as stated: in every state reachable by set_debug, set_verbose and
\* set_dryrun calls, is_debug() implies is_verbose().
C16_DebugImpliesVerbose ==
    is_debug => is_verbose

\* C16: set_debug(True) leaves both debug and verbose enabled, and a call
\* makes debug enabled without verbose only when it is set_verbose(False).
C16_DebugEnablesVerbose ==
    [][ /\ (lastOp'.op = "set_debug" /\ lastOp'.debug) => (is_debug' /\ is_verbose')
        /\ ((is_debug => is_verbose) /\ ~(lastOp'.op = "set_verbose" /\ ~lastOp'.verbose))
               => (is_debug' => is_verbose') ]_vars

\* set_debug(True) has just run and both flags are enabled.
C16_Witness ==
    /\ lastOp.op = "set_debug"
    /\ lastOp.debug
    /\ is_debug
    /\ is_verbose

----------------------------------------------------------------------------
(* parse_hosts *)

\* s.split(sep) for a one-character separator: the pieces between the
\* separators, an empty string giving one empty piece.
RECURSIVE split(_, _)
split(s, sep) ==
    LET i == find(s, sep)
    IN  IF i = -1 THEN <<s>>
        ELSE <<SubSeq(s, 1, i)>> \o split(SubSeq(s, i + 2, Len(s)), sep)

Digits == <<"0", "1", "2", "3", "4", "5", "6", "7", "8", "9">>
IsDigit(c) == \E i \in 1..Len(Digits) : Digits[i] = c
DigitValue(c) == (CHOOSE i \in 1..Len(Digits) : Digits[i] = c) - 1

\* int(s) succeeds (no ValueError): s is a non-empty run of digits.
IsInt(s) == s # <<>> /\ \A i \in 1..Len(s) : IsDigit(s[i])

\* int(s) for a run of digits.
RECURSIVE int(_)
int(s) ==
    IF s = <<>> THEN 0
    ELSE int(SubSeq(s, 1, Len(s) - 1)) * 10 + DigitValue(s[Len(s)])

\* Host(host, port)
Host(host, port) == [host |-> host, port |-> port]

\* The loop of parse_hosts over the entries: the hosts, or "abort" at the
\* first entry with more than one colon or with a port that is no number.
RECURSIVE parse_entries(_, _)
parse_entries(entries, default_port) ==
    IF entries = <<>> THEN <<>>
    ELSE LET split_host == split(Head(entries), ":")
             rest == parse_entries(Tail(entries), default_port)
         IN  IF Len(split_host) > 2 THEN "abort"
             ELSE IF Len(split_host) = 2 /\ ~IsInt(split_host[2]) THEN "abort"
             ELSE IF rest = "abort" THEN "abort"
             ELSE <<Host(split_host[1],
                         IF Len(split_host) = 1
                         THEN (IF default_port # None /\ default_port.v # 0
                               THEN default_port ELSE None)
                         ELSE Value(int(split_host[2])))>> \o rest

\* parse_hosts(host_string, min_hosts, max_hosts, default_port): how the
\* call ends and what it returns.  The second count check compares with
\* '<' as the first does.
parse_hosts(host_string, min_hosts, max_hosts, default_port) ==
    LET hosts == parse_entries(split(host_string, ","), default_port)
    IN  IF hosts = "abort"
        THEN [result |-> "abort", ret |-> None]
        ELSE IF min_hosts # None /\ Len(hosts) < min_hosts.v
        THEN [result |-> "abort", ret |-> None]
        ELSE IF max_hosts # None /\ Len(hosts) < max_hosts.v
        THEN [result |-> "abort", ret |-> None]
        ELSE [result |-> "ok", ret |-> Pairs(hosts)]

\* A function that keeps no state is called: only the call variables
\* change.  A behaviour makes one such call.
Returns(op, r) ==
    /\ ~exited
    /\ lastOp.op = "__init__"
    /\ lastOp' = op
    /\ result' = r.result
    /\ ret' = r.ret
    /\ UNCHANGED <<cfgVars, exited, dryrun_enabled, zipVars, auxVars>>

ParseHosts(hs, mn, mx, dp) ==
    Returns([op |-> "parse_hosts", host_string |-> hs, min_hosts |-> mn,
             max_hosts |-> mx, default_port |-> dp],
            parse_hosts(hs, mn, mx, dp))

\* Longest host string tried.
MaxHostLen == 3

HostChars == {"h", ",", ":", "8"}
HostStrings == UNION {[1..n -> HostChars] : n \in 0..MaxHostLen}
HostLimits == {None, Value(1), Value(2)}
DefaultPorts == {None, Value(9)}

\* The entries of a host string are well formed: at most one colon each,
\* and a number after it.
WellFormed(host_string) ==
    \A i \in 1..Len(split(host_string, ",")) :
        LET e == split(host_string, ",")[i]
            colons == Cardinality({j \in 1..Len(e) : e[j] = ":"})
        IN  colons = 0 \/ (colons = 1 /\ IsInt(split(e, ":")[2]))

\* The number of comma-separated hosts.
HostCount(host_string) ==
    1 + Cardinality({j \in 1..Len(host_string) : host_string[j] = ","})

\* C12: on well-formed entries parse_hosts aborts when min_hosts is given
\* and there are fewer hosts, aborts when max_hosts is given and there are
\* more, and otherwise returns one Host per entry in input order.
C12_HostCountChecked ==
    (lastOp.op = "parse_hosts" /\ WellFormed(lastOp.host_string)) =>
        LET n == HostCount(lastOp.host_string)
            few == lastOp.min_hosts # None /\ n < lastOp.min_hosts.v
            many == lastOp.max_hosts # None /\ n > lastOp.max_hosts.v
        IN  /\ (few \/ many) => result = "abort"
            /\ ~(few \/ many) =>
                    /\ result = "ok"
                    /\ Len(ret.v) = n
                    /\ \A i \in 1..n :
                          ret.v[i].host = split(split(lastOp.host_string, ",")[i], ":")[1]

----------------------------------------------------------------------------
(* flatten and merge_java_options.  An item is None, a string or a        *)
(* sequence (list or tuple) of items.                                      *)

StrItem(str) == [kind |-> "str", s |-> str]
ListItem(items) == [kind |-> "list", items |-> items]

\* is_sequence(item)
is_sequence(item) == item.kind = "list"

\* flatten(*items): the strings of a possibly nested sequence in order,
\* None items left out.
RECURSIVE flatten(_)
flatten(items) ==
    IF items = <<>> THEN <<>>
    ELSE LET item == Head(items)
         IN  (IF is_sequence(item) THEN flatten(item.items)
              ELSE IF item = None THEN <<>>
              ELSE <<item.s>>) \o flatten(Tail(items))

Letters == {"X", "d", "g", "m", "s", "x"}

\* c.isalpha()
isalpha(c) == c \in Letters

\* ''.join([c for c in str if c.isalpha()]): every alphabetic character.
RECURSIVE alpha_chars(_)
alpha_chars(str) ==
    IF str = <<>> THEN <<>>
    ELSE (IF isalpha(Head(str)) THEN <<Head(str)>> ELSE <<>>) \o alpha_chars(Tail(str))

\* The symbol merge_java_options derives from a -X option.
sym(opt) == alpha_chars(SubSeq(opt, 3, Len(opt)))

\* The loop of merge_java_options over the flattened options.
RECURSIVE merge_loop(_, _, _)
merge_loop(flat, xargs, ret_opts) ==
    IF flat = <<>> THEN ret_opts
    ELSE LET opt == Head(flat)
         IN  IF startswith(opt, <<"-", "X">>)
             THEN IF sym(opt) \notin xargs
                  THEN merge_loop(Tail(flat), xargs \cup {sym(opt)}, Append(ret_opts, opt))
                  ELSE merge_loop(Tail(flat), xargs, ret_opts)
             ELSE merge_loop(Tail(flat), xargs, Append(ret_opts, opt))

\* merge_java_options(*opts)
merge_java_options(opts) ==
    [result |-> "ok", ret |-> Pairs(merge_loop(flatten(opts), {}, <<>>))]

MergeJavaOptions(opts) ==
    Returns([op |-> "merge_java_options", opts |-> opts], merge_java_options(opts))

O_mx1m == <<"-", "X", "m", "x", "1", "m">>
O_mx2g == <<"-", "X", "m", "x", "2", "g">>
O_mx1 == <<"-", "X", "m", "x", "1">>
O_ss1 == <<"-", "X", "s", "s", "1">>
O_d == <<"-", "d">>

\* Most arguments handed to merge_java_options.
MaxOpts == 2

OptItems ==
    {None, StrItem(O_mx1m), StrItem(O_mx2g), StrItem(O_mx1), StrItem(O_ss1), StrItem(O_d),
     ListItem(<<StrItem(O_ss1), None, ListItem(<<StrItem(O_mx1), StrItem(O_d)>>)>>)}
OptArgs == UNION {[1..n -> OptItems] : n \in 0..MaxOpts}

\* The initial run of alphabetic characters of a string.
RECURSIVE InitialRun(_)
InitialRun(str) ==
    IF str = <<>> \/ ~isalpha(Head(str)) THEN <<>>
    ELSE <<Head(str)>> \o InitialRun(Tail(str))

IsX(opt) == startswith(opt, <<"-", "X">>)

\* The options a merge is to keep: every option that is no -X option, and
\* of the -X options the first of each symbol, the symbol being the initial
\* alphabetic run after '-X'.
Merged13(flat) ==
    SelectSeq([i \in 1..Len(flat) |-> [i |-> i, opt |-> flat[i]]],
              LAMBDA e : \/ ~IsX(e.opt)
                         \/ ~\E j \in 1..(e.i - 1) :
                                /\ IsX(flat[j])
                                /\ InitialRun(SubSeq(flat[j], 3, Len(flat[j])))
                                     = InitialRun(SubSeq(e.opt, 3, Len(e.opt))))

\* C13: merge_java_options returns the flattened non-None options in their
\* order, every option not starting with '-X' kept, and of the -X options
\* only the first of each symbol (-Xmx1m and -Xmx2g share the symbol mx).
C13_MergeJavaOptions ==
    lastOp.op = "merge_java_options" =>
        LET keep == Merged13(flatten(lastOp.opts))
        IN  /\ result = "ok"
            /\ ret.v = [i \in 1..Len(keep) |-> keep[i].opt]

----------------------------------------------------------------------------
(* normalize_list *)

\* filler * n: a string or a list repeated n times; None cannot be
\* multiplied (TypeError).
RECURSIVE times(_, _)
times(filler, n) ==
    IF n = 0 THEN <<>>
    ELSE (IF filler.kind = "str" THEN filler.s ELSE filler.items) \o times(filler, n - 1)

\* The items `output += value` appends: the characters of a string, the
\* elements of a list.
extended(filler, chars) ==
    IF filler.kind = "str" THEN [i \in 1..Len(chars) |-> StrItem(<<chars[i]>>)] ELSE chars

\* normalize_list(items, width, filler): how the call ends and the tuple
\* it returns.
normalize_list(items, width, filler) ==
    LET output == SubSeq(items, 1, IF Len(items) < width THEN Len(items) ELSE width)
    IN  IF Len(output) < width
        THEN IF filler = None
             THEN [result |-> "TypeError", ret |-> None]
             ELSE [result |-> "ok",
                   ret |-> Pairs(output \o extended(filler, times(filler, width - Len(output))))]
        ELSE [result |-> "ok", ret |-> Pairs(output)]

NormalizeList(items, width, filler) ==
    Returns([op |-> "normalize_list", items |-> items, width |-> width, filler |-> filler],
            normalize_list(items, width, filler))

\* Longest list and largest width tried.
MaxItems == 2
MaxWidth == 3

I_p == StrItem(<<"p">>)
I_q == StrItem(<<"q">>)
I_z == StrItem(<<"z">>)
ItemLists == UNION {[1..n -> {I_p, I_q}] : n \in 0..MaxItems}
Fillers == {None, StrItem(<<>>), I_z, StrItem(<<"z", "z">>), ListItem(<<I_z>>)}

\* C14: normalize_list returns exactly width elements: the first
\* min(len(items), width) items in order, then copies of the filler (None
\* when no filler is given).
C14_NormalizeList ==
    lastOp.op = "normalize_list" =>
        LET n == IF Len(lastOp.items) < lastOp.width THEN Len(lastOp.items) ELSE lastOp.width
        IN  /\ result = "ok"
            /\ Len(ret.v) = lastOp.width
            /\ \A i \in 1..n : ret.v[i] = lastOp.items[i]
            /\ \A i \in (n + 1)..lastOp.width : ret.v[i] = lastOp.filler

----------------------------------------------------------------------------
(* File *)

\* The frame of a File call: everything but the File, its disk file and
\* the call history.
FileFrame ==
    UNCHANGED <<cfgVars, dryrun_enabled, zipVars, verbose_enabled, debug_enabled,
                executed, stdout>>

\* File(path, mode): a mode other than 'r' and 'w' aborts.
File__init__(mode) ==
    /\ ~exited
    /\ lastOp' = [op |-> "File", mode |-> mode]
    /\ ret' = None
    /\ IF mode \notin {"r", "w"}
       THEN /\ result' = "abort"
            /\ exited' = TRUE
            /\ UNCHANGED fileVars
       ELSE /\ f_mode' = mode
            /\ f_f' = "None"
            /\ result' = "ok"
            /\ UNCHANGED <<exited, f_disk>>
    /\ FileFrame

\* close(): closes the file object when there is one; self.f keeps it.
File_close_KeepsNone ==
    IF f_f = "None" THEN "None" ELSE "closed"

\* _open(): open(self.path, self.mode) fails on a missing file in mode
\* 'r' and creates or truncates the file in mode 'w'.
File__open_fails ==
    f_mode = "r" /\ ~f_disk.exists

\* open(): close(), then self.f = self._open().
File_open ==
    /\ ~exited
    /\ lastOp' = [op |-> "open"]
    /\ ret' = None
    /\ IF File__open_fails
       THEN /\ result' = "abort"
            /\ exited' = TRUE
            /\ f_f' = File_close_KeepsNone
            /\ UNCHANGED <<f_mode, f_disk>>
       ELSE /\ f_f' = "open"
            /\ f_disk' = IF f_mode = "w" THEN [exists |-> TRUE, data |-> <<>>] ELSE f_disk
            /\ result' = "ok"
            /\ UNCHANGED <<exited, f_mode>>
    /\ FileFrame

\* Most chunks a file holds.
MaxWrites == 2

Chunks == {"s", "t"}

\* write(s): aborts unless the mode is 'w' and self.f is set, then writes
\* to the file object; a closed file object raises ValueError, which is
\* not caught; an IOError or OSError aborts.
File_write(s, ioerror) ==
    /\ ~exited
    /\ Len(f_disk.data) < MaxWrites
    /\ lastOp' = [op |-> "write", s |-> s, ioerror |-> ioerror]
    /\ ret' = None
    /\ IF f_mode # "w" \/ f_f = "None"
       THEN /\ result' = "abort"
            /\ exited' = TRUE
            /\ UNCHANGED fileVars
       ELSE IF f_f = "closed"
       THEN /\ result' = "ValueError"
            /\ UNCHANGED <<exited, fileVars>>
       ELSE IF ioerror
       THEN /\ result' = "abort"
            /\ exited' = TRUE
            /\ UNCHANGED fileVars
       ELSE /\ f_disk' = [f_disk EXCEPT !.data = Append(@, s)]
            /\ result' = "ok"
            /\ UNCHANGED <<exited, f_mode, f_f>>
    /\ FileFrame

\* read(): aborts unless the mode is 'r'; opens and closes the file itself
\* when it was not opened; returns the whole content.
File_read ==
    /\ ~exited
    /\ lastOp' = [op |-> "read"]
    /\ IF f_mode # "r" \/ (f_f = "None" /\ File__open_fails)
       THEN /\ result' = "abort"
            /\ exited' = TRUE
            /\ ret' = None
       ELSE IF f_f = "closed"
       THEN /\ result' = "ValueError"
            /\ ret' = None
            /\ UNCHANGED exited
       ELSE /\ result' = "ok"
            /\ ret' = Pairs(f_disk.data)
            /\ UNCHANGED exited
    /\ UNCHANGED fileVars
    /\ FileFrame

\* close()
File_close ==
    /\ ~exited
    /\ lastOp' = [op |-> "close"]
    /\ ret' = None
    /\ result' = "ok"
    /\ f_f' = File_close_KeepsNone
    /\ UNCHANGED <<exited, f_mode, f_disk>>
    /\ FileFrame

InitFile ==
    /\ InitGlobal

NextFile ==
    \/ \E mode \in {"r", "w", "a"} : File__init__(mode)
    \/ File_open
    \/ \E s \in Chunks, ioerror \in BOOLEAN : File_write(s, ioerror)
    \/ File_read
    \/ File_close

SpecFile == InitFile /\ [][NextFile]_vars

\* C15: write(s) writes only when the File has mode 'w' and is open
\* (open() was called and close() has not been called since); in every
\* other state write ends in abort() and writes nothing.
C15_WriteProtocol ==
    [][ lastOp'.op = "write" =>
            IF f_mode = "w" /\ f_f = "open"
            THEN \/ result' = "ok" /\ f_disk' = [f_disk EXCEPT !.data = Append(@, lastOp'.s)]
                 \/ exited' /\ f_disk' = f_disk
            ELSE exited' /\ f_disk' = f_disk ]_vars

InitUtil ==
    /\ InitGlobal

NextUtil ==
    \/ \E hs \in HostStrings, mn \in HostLimits, mx \in HostLimits, dp \in DefaultPorts :
          ParseHosts(hs, mn, mx, dp)
    \/ \E opts \in OptArgs : MergeJavaOptions(opts)
    \/ \E items \in ItemLists, width \in 0..MaxWidth, filler \in Fillers :
          NormalizeList(items, width, filler)

SpecUtil == InitUtil /\ [][NextUtil]_vars

====
